---- MODULE Spec2Model ----
(***************************************************************************)
(* Model of dynamodb_encryption_sdk.materials.wrapped                      *)
(* (WrappedCryptographicMaterials) and of                                  *)
(* dynamodb_encryption_sdk.material_providers                              *)
(* (CryptographicMaterialsProvider).                                       *)
(*                                                                         *)
(* Text is a sequence of one-character strings, bytes are sequences of     *)
(* integers 0..255, a dict is a function whose DOMAIN is its key set, and  *)
(* an optional value is <<>> (None) or <<v>>.                              *)
(***************************************************************************)
EXTENDS Integers, Sequences, FiniteSets, TLC

None == <<>>
Some(x) == <<x>>

(***************************************************************************)
(* Text helpers: str.split(sep, 1), int(), base64.                         *)
(***************************************************************************)

\* Index of the first occurrence of ch in s, 0 when there is none.
RECURSIVE FindFrom(_, _, _)
FindFrom(s, ch, i) ==
    IF i > Len(s) THEN 0
    ELSE IF s[i] = ch THEN i
    ELSE FindFrom(s, ch, i + 1)

\* s.split('/', 1): one element when s has no "/", else the text before the
\* first "/" and all the text after it.
Split1(s) ==
    LET i == FindFrom(s, "/", 1)
    IN  IF i = 0 THEN <<s>>
        ELSE <<SubSeq(s, 1, i - 1), SubSeq(s, i + 1, Len(s))>>

Digits == <<"0", "1", "2", "3", "4", "5", "6", "7", "8", "9">>

IsDigit(c) == \E i \in 1..Len(Digits) : Digits[i] = c

DigitValue(c) == (CHOOSE i \in 1..Len(Digits) : Digits[i] = c) - 1

RECURSIVE DecimalValue(_, _)
DecimalValue(s, acc) ==
    IF Len(s) = 0 THEN acc
    ELSE DecimalValue(Tail(s), acc * 10 + DigitValue(Head(s)))

\* int(s) for text over letters, digits, "/", "+", "-": an optional sign and at
\* least one digit, anything else raises ValueError.
IntLiteral(s) ==
    LET signed == Len(s) > 0 /\ Head(s) \in {"+", "-"}
        body == IF signed THEN Tail(s) ELSE s
    IN  Len(body) > 0 /\ \A i \in 1..Len(body) : IsDigit(body[i])

Int_(s) ==
    LET signed == Head(s) \in {"+", "-"}
        body == IF signed THEN Tail(s) ELSE s
        v == DecimalValue(body, 0)
    IN  IF Head(s) = "-" THEN 0 - v ELSE v

B64Alphabet ==
    <<"A", "B", "C", "D", "E", "F", "G", "H", "I", "J", "K", "L", "M",
      "N", "O", "P", "Q", "R", "S", "T", "U", "V", "W", "X", "Y", "Z",
      "a", "b", "c", "d", "e", "f", "g", "h", "i", "j", "k", "l", "m",
      "n", "o", "p", "q", "r", "s", "t", "u", "v", "w", "x", "y", "z",
      "0", "1", "2", "3", "4", "5", "6", "7", "8", "9", "+", "/">>

B64Char(v) == B64Alphabet[v + 1]

B64Chars == {B64Alphabet[i] : i \in 1..Len(B64Alphabet)}

B64Table ==
    [c \in B64Chars |-> (CHOOSE i \in 1..Len(B64Alphabet) : B64Alphabet[i] = c) - 1]

IsB64Char(c) == c \in B64Chars

B64Value(c) == B64Table[c]

\* base64.b64encode: each group of three bytes gives four characters, a short
\* last group is padded with "=".
b64encode(b) ==
    LET n == Len(b)
        At(i) == IF i <= n THEN b[i] ELSE 0
    IN  [j \in 1..(4 * ((n + 2) \div 3)) |->
            LET g == 3 * ((j - 1) \div 4)
                pos == (j - 1) % 4
            IN  IF pos = 0 THEN B64Char(At(g + 1) \div 4)
                ELSE IF pos = 1
                THEN B64Char((At(g + 1) % 4) * 16 + At(g + 2) \div 16)
                ELSE IF pos = 2
                THEN IF g + 2 > n THEN "="
                     ELSE B64Char((At(g + 2) % 16) * 4 + At(g + 3) \div 64)
                ELSE IF g + 3 > n THEN "=" ELSE B64Char(At(g + 3) % 64)]

\* base64.b64decode(s) with validate=False (binascii.a2b_base64, not strict).
\* Characters outside the alphabet are skipped.  A "=" read when two or three
\* characters of a quad are in, and which with the pads read since the last
\* data character fills the quad, ends the parse; other pads are skipped.  A
\* quad left incomplete at the end of the text raises binascii.Error.
\* The result is [ok |-> BOOLEAN, bytes |-> the decoded bytes].
DataBefore(s, p) == Cardinality({i \in 1..(p - 1) : IsB64Char(s[i])})

PadsUpTo(s, p) ==
    Cardinality({i \in 1..p :
        /\ s[i] = "="
        /\ \A j \in i..p : ~IsB64Char(s[j])})

EndsParse(s, p) ==
    /\ s[p] = "="
    /\ DataBefore(s, p) % 4 >= 2
    /\ (DataBefore(s, p) % 4) + PadsUpTo(s, p) >= 4

b64decode(s) ==
    LET stops == {p \in 1..Len(s) : EndsParse(s, p)}
        end == IF stops = {} THEN Len(s) + 1
               ELSE CHOOSE p \in stops : \A q \in stops : p <= q
        data == SelectSeq(SubSeq(s, 1, end - 1), IsB64Char)
        n == Len(data)
        v(i) == B64Value(data[i])
        count == 3 * (n \div 4)
                 + (IF n % 4 = 2 THEN 1 ELSE IF n % 4 = 3 THEN 2 ELSE 0)
    IN  IF stops = {} /\ n % 4 # 0 THEN [ok |-> FALSE, bytes |-> <<>>]
        ELSE [ok |-> TRUE,
              bytes |-> [j \in 1..count |->
                  LET ci == (8 * (j - 1)) \div 6 + 1
                      off == (8 * (j - 1)) % 6
                  IN  IF off = 0 THEN v(ci) * 4 + v(ci + 1) \div 16
                      ELSE IF off = 2
                      THEN (v(ci) % 16) * 16 + v(ci + 1) \div 4
                      ELSE (v(ci) % 4) * 64 + v(ci + 1)]]

(***************************************************************************)
(* Names and tables of materials/wrapped.py.                               *)
(***************************************************************************)

T_AES == <<"A", "E", "S">>
T_RSA == <<"R", "S", "A">>
T_AESWrap == <<"A", "E", "S", "W", "r", "a", "p">>
T_RSA_OAEP ==
    <<"R", "S", "A", "/", "E", "C", "B", "/", "O", "A", "E", "P", "W", "i",
      "t", "h", "S", "H", "A", "-", "2", "5", "6", "A", "n", "d", "M", "G",
      "F", "1", "P", "a", "d", "d", "i", "n", "g">>

_DEFAULT_CONTENT_ENCRYPTION_ALGORITHM == <<"A", "E", "S", "/", "2", "5", "6">>

_WRAPPING_TRANSFORMATION == (T_AES :> T_AESWrap) @@ (T_RSA :> T_RSA_OAEP)

\* MaterialDescriptionKeys.*.value
WRAPPED_DATA_KEY == "amzn-ddb-env-key"
CONTENT_ENCRYPTION_ALGORITHM == "amzn-ddb-env-alg"
CONTENT_KEY_WRAPPING_ALGORITHM == "amzn-ddb-wrap-alg"

\* EncryptionKeyTypes.SYMMETRIC
SYMMETRIC == "SYMMETRIC"

\* dict.get(k, default) and dict.update(e) on a copy.
Get(d, k, default) == IF k \in DOMAIN d THEN d[k] ELSE default

Updated(d, e) ==
    [k \in DOMAIN d \cup DOMAIN e |-> IF k \in DOMAIN e THEN e[k] ELSE d[k]]

(***************************************************************************)
(* The delegated-key capability (an external collaborator): wrap, unwrap   *)
(* and generate.  A delegated key is [key |-> bytes, algorithm |-> text].  *)
(* wrap masks the content under the key and the transform and prefixes a   *)
(* check byte; unwrap inverts it for the same key material and transform   *)
(* and fails on anything else.                                             *)
(***************************************************************************)

TransformCode(algorithm) ==
    IF algorithm = T_AESWrap THEN 1
    ELSE IF algorithm = T_RSA_OAEP THEN 2
    ELSE IF algorithm = T_AES THEN 3
    ELSE IF algorithm = T_RSA THEN 4
    ELSE 10 + Len(algorithm)

MaskOf(k, algorithm) == (k.key[1] + TransformCode(algorithm)) % 256

wrap(k, algorithm, content_key, additional_associated_data) ==
    <<MaskOf(k, algorithm)>>
    \o [i \in 1..Len(content_key) |->
            (content_key[i] + MaskOf(k, algorithm)) % 256]

unwrap(k, algorithm, wrapped_key, wrapped_key_algorithm, wrapped_key_type, aad) ==
    IF Len(wrapped_key) = 0 \/ wrapped_key[1] # MaskOf(k, algorithm)
    THEN [ok |-> FALSE]
    ELSE [ok |-> TRUE,
          key |-> [key |-> [i \in 1..(Len(wrapped_key) - 1) |->
                               (wrapped_key[i + 1] + 256
                                - MaskOf(k, algorithm)) % 256],
                   algorithm |-> wrapped_key_algorithm,
                   key_type |-> wrapped_key_type]]

\* The length the generator picks for a family when none is requested.
GeneratorDefaultLength == 16

\* JceNameLocalDelegatedKey.generate: fresh key bytes, here drawn from seed.
generate(algorithm, key_length, seed) ==
    LET n == IF key_length = None THEN GeneratorDefaultLength
             ELSE key_length[1]
    IN  [key |-> [i \in 1..n |-> (seed + 7 * i) % 256],
         algorithm |-> algorithm,
         key_type |-> SYMMETRIC]

(***************************************************************************)
(* WrappedCryptographicMaterials.  self is the record of the instance's    *)
(* attributes during __attrs_post_init__, with _material_description the   *)
(* contents of the dict the attribute refers to.                           *)
(***************************************************************************)

Raise(kind, calls) ==
    [outcome |-> kind, calls |-> calls, content_key |-> None]

\* Variant: the table lookup without the identity fallback.
_wrapping_transformation_NoFallback(algorithm) ==
    Get(_WRAPPING_TRANSFORMATION, algorithm, None)

\* self._wrapping_transformation(algorithm)
_wrapping_transformation(algorithm) ==
    Get(_WRAPPING_TRANSFORMATION, algorithm, algorithm)

\* Variant: the recovery path translating the native identifier as the
\* generation path does.
RecoveryWrappingAlgorithm_Translated(self) ==
    Get(self._material_description, CONTENT_KEY_WRAPPING_ALGORITHM,
        _wrapping_transformation(self._unwrapping_key[1].algorithm))

\* wrapping_algorithm of _content_key_from_material_description
RecoveryWrappingAlgorithm(self) ==
    Get(self._material_description, CONTENT_KEY_WRAPPING_ALGORITHM,
        self._unwrapping_key[1].algorithm)

\* the arguments of the unwrap call
UnwrapCall(self, wrapped_key) ==
    [op |-> "unwrap",
     key |-> self._unwrapping_key[1],
     algorithm |-> RecoveryWrappingAlgorithm(self),
     wrapped_key |-> wrapped_key,
     wrapped_key_algorithm |-> Split1(self._content_key_algorithm)[1],
     wrapped_key_type |-> SYMMETRIC,
     additional_associated_data |-> None]

\* Variant: the two missing-key errors swapped.
MissingUnwrappingKeyError_Swapped == "WrappingError"

\* the errors raised when the key a path needs is None
MissingUnwrappingKeyError == "UnwrappingError"

MissingWrappingKeyError == "WrappingError"

_content_key_from_material_description(self) ==
    IF self._unwrapping_key = None
    THEN Raise(MissingUnwrappingKeyError, <<>>)
    ELSE
        LET decoded == b64decode(self._material_description[WRAPPED_DATA_KEY])
        IN  IF ~decoded.ok THEN Raise("binascii.Error", <<>>)
            ELSE
                LET c == UnwrapCall(self, decoded.bytes)
                    r == unwrap(c.key, c.algorithm, c.wrapped_key,
                                c.wrapped_key_algorithm, c.wrapped_key_type,
                                c.additional_associated_data)
                IN  IF r.ok
                    THEN [outcome |-> "ok",
                          calls |-> <<c @@ [returned |-> Some(r.key)]>>,
                          content_key |-> Some(r.key)]
                    ELSE Raise("UnwrappingError",
                               <<c @@ [returned |-> None]>>)

\* wrapping_algorithm of _generate_content_key
GenerationWrappingAlgorithm(self) ==
    Get(self._material_description, CONTENT_KEY_WRAPPING_ALGORITHM,
        _wrapping_transformation(self._wrapping_key[1].algorithm))

\* Variant: the bit length taken as the byte length.
ContentKeyLength_Bits(args) ==
    IF Len(args) < 2 THEN None ELSE Some(Int_(args[2]))

\* content_key_length: int(args[1]) // 8, None on IndexError.  Only evaluated
\* when int() does not raise.
ContentKeyLength(args) ==
    IF Len(args) < 2 THEN None ELSE Some(Int_(args[2]) \div 8)

\* int(args[1]) raises ValueError
LengthRaises(args) == Len(args) >= 2 /\ ~IntLiteral(args[2])

\* Variant: the resolved transform not written to the new description.
NewMaterialDescription_NoTransform(self, wrapped_key, wrapping_algorithm) ==
    Updated(self._material_description,
            (WRAPPED_DATA_KEY :> b64encode(wrapped_key))
            @@ (CONTENT_ENCRYPTION_ALGORITHM :> self._content_key_algorithm))

\* Variant: the spec used not echoed into the new description.
NewMaterialDescription_NoSpecEcho(self, wrapped_key, wrapping_algorithm) ==
    Updated(self._material_description,
            (WRAPPED_DATA_KEY :> b64encode(wrapped_key))
            @@ (CONTENT_KEY_WRAPPING_ALGORITHM :> wrapping_algorithm))

\* new_material_description: a copy of the description, updated
NewMaterialDescription(self, wrapped_key, wrapping_algorithm) ==
    Updated(self._material_description,
            (WRAPPED_DATA_KEY :> b64encode(wrapped_key))
            @@ (CONTENT_ENCRYPTION_ALGORITHM :> self._content_key_algorithm)
            @@ (CONTENT_KEY_WRAPPING_ALGORITHM :> wrapping_algorithm))

_generate_content_key(self, seed) ==
    IF self._wrapping_key = None THEN Raise(MissingWrappingKeyError, <<>>)
    ELSE
        LET wrapping_algorithm == GenerationWrappingAlgorithm(self)
            args == Split1(self._content_key_algorithm)
        IN  IF LengthRaises(args) THEN Raise("ValueError", <<>>)
            ELSE
                LET g == [op |-> "generate",
                          algorithm |-> args[1],
                          key_length |-> ContentKeyLength(args)]
                    content_key == generate(g.algorithm, g.key_length, seed)
                    w == [op |-> "wrap",
                          key |-> self._wrapping_key[1],
                          algorithm |-> wrapping_algorithm,
                          content_key |-> content_key.key,
                          additional_associated_data |-> None]
                    wrapped_key == wrap(w.key, w.algorithm, w.content_key,
                                        w.additional_associated_data)
                IN  [outcome |-> "ok",
                     calls |-> <<g @@ [returned |-> content_key],
                                 w @@ [returned |-> wrapped_key]>>,
                     content_key |-> Some(content_key),
                     new_material_description |->
                         NewMaterialDescription(self, wrapped_key,
                                                wrapping_algorithm)]

\* self._content_key_algorithm, set first in __attrs_post_init__
ContentKeyAlgorithm(material_description) ==
    Get(material_description, CONTENT_ENCRYPTION_ALGORITHM,
        _DEFAULT_CONTENT_ENCRYPTION_ALGORITHM)

\* Variant: falling back to generation when there is no unwrapping key.
TakesRecoveryPath_NeedsUnwrappingKey(self) ==
    /\ WRAPPED_DATA_KEY \in DOMAIN self._material_description
    /\ self._unwrapping_key # None

\* the test that selects the path in __attrs_post_init__
TakesRecoveryPath(self) == WRAPPED_DATA_KEY \in DOMAIN self._material_description

\* __attrs_post_init__: [path, outcome, calls, content_key] and, on the
\* generation path, the dict that replaces self._material_description.
__attrs_post_init__(self, seed) ==
    IF TakesRecoveryPath(self)
    THEN [path |-> "recovery"]
         @@ _content_key_from_material_description(self)
    ELSE [path |-> "generation"] @@ _generate_content_key(self, seed)

(***************************************************************************)
(* State.                                                                  *)
(*   heap      the dict objects, by reference: 0 is the caller's map, the  *)
(*             others are the dicts the instances made                     *)
(*   m1, m2    the two materials objects of the program, None until built; *)
(*             the program calls the constructor once for each            *)
(*   log       the constructor calls so far, each with its arguments, the  *)
(*             dict it was given (before and after), the calls it made on  *)
(*             the delegated keys, how it ended and what it built          *)
(*   ret       the most recent accessor call and what it returned          *)
(*   mutations how many times the caller changed its map after m1 was built*)
(*   provider  the attributes of a base CryptographicMaterialsProvider     *)
(*   plog      the calls made on the provider and how each ended           *)
(***************************************************************************)
VARIABLES heap, m1, m2, log, ret, mutations, provider, plog

vars == <<heap, m1, m2, log, ret, mutations, provider, plog>>

Last == log[Len(log)]

MaxMutations == 1
MaxProviderCalls == 3

CallerRef == 0
CopyRef(slot) == 2 * slot - 1
NewRef(slot) == 2 * slot

\* The delegated keys the caller holds.
K_AES == [key |-> <<10>>, algorithm |-> T_AES]
K_RSA == [key |-> <<100>>, algorithm |-> T_RSA]
K_OTHER == [key |-> <<200>>, algorithm |-> <<"X", "1">>]
WrappingKeys == {K_AES, K_RSA, K_OTHER}
\* K_AES's material behind another native algorithm identifier
K_AES_ALIAS == [key |-> <<10>>, algorithm |-> <<"A", "E", "S", "2">>]
UnwrappingKeys == WrappingKeys \cup {K_AES_ALIAS}
SigningKeys == {[key |-> <<77>>, algorithm |-> <<"H", "m", "a", "c">>],
                [key |-> <<78>>, algorithm |-> <<"H", "m", "a", "c">>]}
Optional(S) == {None} \cup {Some(x) : x \in S}
Seeds == {3, 250}

\* The descriptions the caller may hold.
T_Custom == <<"C", "u", "s", "t", "o", "m">>
SpecTexts ==
    {_DEFAULT_CONTENT_ENCRYPTION_ALGORITHM, T_AES,
     <<"A", "E", "S", "/", "2", "0">>, <<"X", "/", "8">>,
     <<"A", "E", "S", "/">>, <<"A", "E", "S", "/", "2", "x">>}
WrapAlgTexts == {T_AESWrap, T_Custom}
StoredKey == <<1, 2, 3, 255>>
WrappedTexts ==
    {b64encode(wrap(K_AES, T_AESWrap, StoredKey, None)),
     b64encode(wrap(K_AES, T_AES, StoredKey, None)),
     b64encode(wrap(K_OTHER, T_Custom, <<9, 8>>, None)),
     <<"C", "w", "I", "D", "B", "A">>}
ExtraKey == "x-future"
ExtraTexts == {<<"v">>}

Entry(k, v) == IF v = None THEN <<>> ELSE k :> v[1]

Descriptions ==
    {Entry(WRAPPED_DATA_KEY, w) @@ Entry(CONTENT_ENCRYPTION_ALGORITHM, c)
        @@ Entry(CONTENT_KEY_WRAPPING_ALGORITHM, a) @@ Entry(ExtraKey, x) :
        w \in Optional(WrappedTexts), c \in Optional(SpecTexts),
        a \in Optional(WrapAlgTexts), x \in Optional(ExtraTexts)}

GenerationDescriptions ==
    {d \in Descriptions : WRAPPED_DATA_KEY \notin DOMAIN d}

NoRet == [accessor |-> "none"]
NoAttributes == <<>>

InitWith(D) ==
    /\ heap \in {CallerRef :> d : d \in D}
    /\ m1 = None
    /\ m2 = None
    /\ log = <<>>
    /\ ret = NoRet
    /\ mutations = 0
    /\ provider = NoAttributes
    /\ plog = <<>>

Init == InitWith(Descriptions)

(***************************************************************************)
(* The constructor: the attrs __init__ (validators, the deepcopy converter)*)
(* followed by __attrs_post_init__.                                        *)
(***************************************************************************)

\* Variant: no converter, the attribute refers to the caller's dict.
deepcopy_Alias(h, src, new) == [heap |-> h, ref |-> src]

\* converter=copy.deepcopy: a new dict object new with the contents of src.
deepcopy(h, src, new) == [heap |-> h @@ (new :> h[src]), ref |-> new]

Keep(h, refs) == [r \in DOMAIN h \cap refs |-> h[r]]

RefsOf(m) == IF m = None THEN {} ELSE {m[1]._material_description}

\* WrappedCryptographicMaterials(signing_key, wrapping_key, unwrapping_key,
\* material_description) with the dict at src, building the object of slot.
Construct(slot, signing_key, wrapping_key, unwrapping_key, src, seed) ==
    \E cp \in {deepcopy(heap, src, CopyRef(slot))} :
    \E self \in {[_signing_key |-> signing_key,
                  _wrapping_key |-> wrapping_key,
                  _unwrapping_key |-> unwrapping_key,
                  _material_description |-> cp.heap[cp.ref],
                  _content_key_algorithm |->
                      ContentKeyAlgorithm(cp.heap[cp.ref])]} :
    \E r \in {__attrs_post_init__(self, seed)} :
    LET ok == r.outcome = "ok"
        replaced == ok /\ r.path = "generation"
        ref == IF replaced THEN NewRef(slot) ELSE cp.ref
        h1 == IF replaced
              THEN cp.heap @@ (NewRef(slot) :> r.new_material_description)
              ELSE cp.heap
        built == [_signing_key |-> signing_key,
                  _wrapping_key |-> wrapping_key,
                  _unwrapping_key |-> unwrapping_key,
                  _material_description |-> ref,
                  _content_key_algorithm |-> self._content_key_algorithm,
                  _content_key |-> r.content_key[1]]
        live == {CallerRef} \cup RefsOf(m1) \cup RefsOf(m2)
                \cup (IF ok THEN {ref} ELSE {})
    IN  /\ heap' = Keep(h1, live)
        /\ IF slot = 1
           THEN /\ m1' = IF ok THEN Some(built) ELSE m1
                /\ m2' = m2
           ELSE /\ m2' = IF ok THEN Some(built) ELSE m2
                /\ m1' = m1
        /\ log' = Append(log,
                   [slot |-> slot,
                    signing_key |-> signing_key,
                    wrapping_key |-> wrapping_key,
                    unwrapping_key |-> unwrapping_key,
                    src |-> src,
                    supplied |-> heap[src],
                    supplied_after |-> heap'[src],
                    path |-> r.path,
                    outcome |-> r.outcome,
                    calls |-> r.calls,
                    content_key |-> r.content_key,
                    material_description |->
                        IF ok THEN Some(heap'[ref]) ELSE None])
        /\ UNCHANGED <<ret, mutations, provider, plog>>

\* m1 = WrappedCryptographicMaterials(..., material_description=<caller's map>)
ConstructFromCaller ==
    /\ Len(log) = 0
    /\ \E sk \in SigningKeys, wk \in Optional(WrappingKeys),
          uk \in Optional(UnwrappingKeys), seed \in Seeds :
            Construct(1, sk, wk, uk, CallerRef, seed)

\* m2 = WrappedCryptographicMaterials(...,
\*          material_description=m1.material_description)
ConstructFromMaterials ==
    /\ m1 # None
    /\ Len(log) = 1
    /\ \E wk \in Optional(WrappingKeys), uk \in Optional(UnwrappingKeys) :
            Construct(2, m1[1]._signing_key, wk, uk,
                      m1[1]._material_description, 3)

(***************************************************************************)
(* The accessors.                                                          *)
(***************************************************************************)

material_description(self) == self._material_description

encryption_key(self) == self._content_key

\* Variant: the signing key returned as the decryption key.
decryption_key_Signing(self) == self._signing_key

decryption_key(self) == self._content_key

signing_key(self) == self._signing_key

verification_key(self) == self._signing_key

Returned(name, value) ==
    /\ ret' = [accessor |-> name, value |-> value]
    /\ UNCHANGED <<heap, m1, m2, log, mutations, provider, plog>>

GetMaterialDescription ==
    m1 # None /\ Returned("material_description", material_description(m1[1]))

GetEncryptionKey ==
    m1 # None /\ Returned("encryption_key", encryption_key(m1[1]))

GetDecryptionKey ==
    m1 # None /\ Returned("decryption_key", decryption_key(m1[1]))

GetSigningKey ==
    m1 # None /\ Returned("signing_key", signing_key(m1[1]))

GetVerificationKey ==
    m1 # None /\ Returned("verification_key", verification_key(m1[1]))

(***************************************************************************)
(* The caller changes the map it passed to the constructor of m1.          *)
(***************************************************************************)

EntryTexts(k) ==
    IF k = WRAPPED_DATA_KEY THEN WrappedTexts
    ELSE IF k = CONTENT_ENCRYPTION_ALGORITHM THEN SpecTexts
    ELSE IF k = CONTENT_KEY_WRAPPING_ALGORITHM THEN WrapAlgTexts
    ELSE ExtraTexts \cup {<<"w">>}

DescriptionKeys ==
    {WRAPPED_DATA_KEY, CONTENT_ENCRYPTION_ALGORITHM,
     CONTENT_KEY_WRAPPING_ALGORITHM, ExtraKey}

Mutated(d) ==
    /\ m1 # None
    /\ mutations < MaxMutations
    /\ d # heap[CallerRef]
    /\ heap' = [heap EXCEPT ![CallerRef] = d]
    /\ mutations' = mutations + 1
    /\ UNCHANGED <<m1, m2, log, ret, provider, plog>>

\* caller_map[k] = v
CallerSetsEntry ==
    \E k \in DescriptionKeys : \E v \in EntryTexts(k) :
        Mutated(Updated(heap[CallerRef], k :> v))

\* del caller_map[k]
CallerDeletesEntry ==
    \E k \in DOMAIN heap[CallerRef] :
        Mutated([j \in DOMAIN heap[CallerRef] \ {k} |-> heap[CallerRef][j]])

(***************************************************************************)
(* CryptographicMaterialsProvider, the base class.  Each method yields how *)
(* the call ends and the provider's attributes after it.                   *)
(***************************************************************************)

EncryptionContexts == {"table-a", "table-b"}

\* Variant: a default that returns None.
decryption_materials_ReturnsNone(self, encryption_context) ==
    [outcome |-> "return", exception |-> "", message |-> "", self |-> self]

decryption_materials(self, encryption_context) ==
    [outcome |-> "raise", exception |-> "AttributeError",
     message |-> "No decryption materials available", self |-> self]

encryption_materials(self, encryption_context) ==
    [outcome |-> "raise", exception |-> "AttributeError",
     message |-> "No encryption materials available", self |-> self]

refresh(self) ==
    [outcome |-> "return", exception |-> "", message |-> "", self |-> self]

ProviderCall(op, r) ==
    /\ Len(plog) < MaxProviderCalls
    /\ provider' = r.self
    /\ plog' = Append(plog, [op |-> op, outcome |-> r.outcome,
                             exception |-> r.exception,
                             message |-> r.message,
                             before |-> provider, after |-> r.self])
    /\ UNCHANGED <<heap, m1, m2, log, ret, mutations>>

DecryptionMaterials ==
    \E c \in EncryptionContexts :
        ProviderCall(<<"decryption_materials", c>>,
                     decryption_materials(provider, c))

EncryptionMaterials ==
    \E c \in EncryptionContexts :
        ProviderCall(<<"encryption_materials", c>>,
                     encryption_materials(provider, c))

Refresh == ProviderCall(<<"refresh">>, refresh(provider))

(***************************************************************************)
(* Specifications.                                                         *)
(***************************************************************************)

\* One materials object built from the caller's map, then read.
Next ==
    \/ ConstructFromCaller
    \/ GetMaterialDescription
    \/ GetEncryptionKey
    \/ GetDecryptionKey
    \/ GetSigningKey
    \/ GetVerificationKey

Spec == Init /\ [][Next]_vars

\* M1 built from a description without a wrapped key, M2 from M1's.
RoundTripInit == InitWith(GenerationDescriptions)

RoundTripNext == ConstructFromCaller \/ ConstructFromMaterials

RoundTripSpec == RoundTripInit /\ [][RoundTripNext]_vars

\* The caller keeps its map and changes it after the object is built.
MutationNext ==
    \/ ConstructFromCaller
    \/ CallerSetsEntry
    \/ CallerDeletesEntry

MutationSpec == Init /\ [][MutationNext]_vars

\* A base provider and its three methods, called in any order.
ProviderInit == InitWith({<<>>})

ProviderNext == DecryptionMaterials \/ EncryptionMaterials \/ Refresh

ProviderSpec == ProviderInit /\ [][ProviderNext]_vars

(***************************************************************************)
(* Properties.  The text helpers below restate "split on the first /"      *)
(* without the model's operators.                                          *)
(***************************************************************************)

HasSlash(s) == \E i \in 1..Len(s) : s[i] = "/"

FirstSlash(s) ==
    CHOOSE i \in 1..Len(s) : s[i] = "/" /\ \A j \in 1..(i - 1) : s[j] # "/"

FamilyOf(s) == IF HasSlash(s) THEN SubSeq(s, 1, FirstSlash(s) - 1) ELSE s

SecondSegment(s) == SubSeq(s, FirstSlash(s) + 1, Len(s))

SuppliedSpec(c) ==
    IF CONTENT_ENCRYPTION_ALGORITHM \in DOMAIN c.supplied
    THEN c.supplied[CONTENT_ENCRYPTION_ALGORITHM]
    ELSE <<"A", "E", "S", "/", "2", "5", "6">>

HasWrappedKey(c) == WRAPPED_DATA_KEY \in DOMAIN c.supplied

Constructed == Len(log) > 0

\* C1: M1 built on the generation path, then M2 built from M1's
\* material_description with an unwrapping key of the wrapping key's material:
\* M2 is built and its decryption key holds the raw key material of M1's
\* encryption key.
C1_RoundTrip ==
    (/\ Len(log) = 2
     /\ log[1].outcome = "ok"
     /\ log[1].path = "generation"
     /\ log[2].src = m1[1]._material_description
     /\ log[2].unwrapping_key # None
     /\ log[2].unwrapping_key[1].key = log[1].wrapping_key[1].key)
    => /\ log[2].outcome = "ok"
       /\ m2 # None
       /\ log[2].supplied = log[1].material_description[1]
       /\ decryption_key(m2[1]).key = encryption_key(m1[1]).key

C1_Witness ==
    /\ Len(log) = 2
    /\ log[1].path = "generation"
    /\ CONTENT_KEY_WRAPPING_ALGORITHM \notin DOMAIN log[1].supplied
    /\ log[2].unwrapping_key = Some(K_AES_ALIAS)
    /\ log[2].wrapping_key = Some(K_RSA)
    /\ m2 # None
    /\ Len(decryption_key(m2[1]).key) = 32
    /\ decryption_key(m2[1]).key = encryption_key(m1[1]).key

\* C2: the path depends only on whether the supplied description has a
\* wrapped-content-key entry.  With the entry: the recovery path, and the only
\* capability call is unwrap.  Without it: the generation path, generate then
\* wrap and never unwrap.  Whichever keys are supplied.
C2_PathSelection ==
    Constructed =>
        LET c == Last
        IN  IF HasWrappedKey(c)
            THEN /\ c.path = "recovery"
                 /\ Len(c.calls) <= 1
                 /\ \A i \in 1..Len(c.calls) : c.calls[i].op = "unwrap"
            ELSE /\ c.path = "generation"
                 /\ \A i \in 1..Len(c.calls) : c.calls[i].op # "unwrap"
                 /\ \/ c.calls = <<>>
                    \/ /\ Len(c.calls) = 2
                       /\ c.calls[1].op = "generate"
                       /\ c.calls[2].op = "wrap"

C2_Witness ==
    /\ Constructed
    /\ HasWrappedKey(Last)
    /\ Last.wrapping_key # None
    /\ Last.unwrapping_key # None
    /\ Last.path = "recovery"
    /\ Len(Last.calls) = 1
    /\ Last.outcome = "ok"

UnsupportedOperation == "AttributeError"

MaterialResolutionFailures == {"WrappingError", "UnwrappingError"}

C4_UnsupportedDefault ==
    /\ provider = NoAttributes
    /\ \A i \in 1..Len(plog) :
        /\ plog[i].after = plog[i].before
        /\ plog[i].op[1] \in {"decryption_materials", "encryption_materials"}
            => /\ plog[i].outcome = "raise"
               /\ plog[i].exception = UnsupportedOperation
               /\ plog[i].exception \notin MaterialResolutionFailures
        /\ plog[i].op[1] = "refresh" => plog[i].outcome = "return"

C4_Witness ==
    /\ Len(plog) = 3
    /\ plog[1].op[1] = "refresh"
    /\ plog[2].op[1] = "refresh"
    /\ plog[3].op[1] = "decryption_materials"
    /\ plog[3].outcome = "raise"

\* C5: after construction, whatever the caller does to the map it passed
\* leaves the instance's material_description and content key as they were
\* when the constructor returned.
C5_DescriptionImmutability ==
    m1 # None =>
        /\ heap[material_description(m1[1])] = Last.material_description[1]
        /\ encryption_key(m1[1]) = Last.content_key[1]
        /\ decryption_key(m1[1]) = Last.content_key[1]

C5_Witness ==
    /\ m1 # None
    /\ mutations > 0
    /\ Last.path = "recovery"
    /\ heap[CallerRef] # Last.supplied
    /\ heap[material_description(m1[1])] = Last.supplied

\* C6: on the generation path the instance's description is the supplied one
\* with three entries set: the wrapped key as base64 of what wrap returned,
\* the spec used (the supplied one or AES/256), the transform passed to wrap.
\* Every other key keeps its value, and the caller's map is untouched.
C6_GeneratedDescription ==
    (Constructed /\ Last.path = "generation" /\ Last.outcome = "ok") =>
        LET c == Last
            md == heap[material_description(m1[1])]
        IN  /\ DOMAIN md = DOMAIN c.supplied
                \cup {WRAPPED_DATA_KEY, CONTENT_ENCRYPTION_ALGORITHM,
                      CONTENT_KEY_WRAPPING_ALGORITHM}
            /\ md[WRAPPED_DATA_KEY] = b64encode(c.calls[2].returned)
            /\ b64decode(md[WRAPPED_DATA_KEY])
                = [ok |-> TRUE, bytes |-> c.calls[2].returned]
            /\ md[CONTENT_ENCRYPTION_ALGORITHM] = SuppliedSpec(c)
            /\ md[CONTENT_KEY_WRAPPING_ALGORITHM] = c.calls[2].algorithm
            /\ \A k \in DOMAIN c.supplied
                    \ {WRAPPED_DATA_KEY, CONTENT_ENCRYPTION_ALGORITHM,
                       CONTENT_KEY_WRAPPING_ALGORITHM} : md[k] = c.supplied[k]
            /\ c.supplied_after = c.supplied
            /\ heap[CallerRef] = c.supplied

C6_Witness ==
    /\ Constructed
    /\ Last.path = "generation"
    /\ Last.outcome = "ok"
    /\ DOMAIN Last.supplied = {ExtraKey}
    /\ DOMAIN heap[material_description(m1[1])]
        = {ExtraKey, WRAPPED_DATA_KEY, CONTENT_ENCRYPTION_ALGORITHM,
           CONTENT_KEY_WRAPPING_ALGORITHM}

\* C7: on the generation path the transform passed to wrap is the
\* description's content-key-wrapping-algorithm entry when there is one, and
\* otherwise the wrapping key's native identifier with AES mapped to AESWrap,
\* RSA to RSA/ECB/OAEPWithSHA-256AndMGF1Padding, and any other left as it is.
C7_TransformResolution ==
    (Constructed /\ Last.path = "generation" /\ Len(Last.calls) = 2) =>
        LET c == Last
            native == c.wrapping_key[1].algorithm
        IN  c.calls[2].algorithm =
                IF CONTENT_KEY_WRAPPING_ALGORITHM \in DOMAIN c.supplied
                THEN c.supplied[CONTENT_KEY_WRAPPING_ALGORITHM]
                ELSE IF native = <<"A", "E", "S">> THEN T_AESWrap
                ELSE IF native = <<"R", "S", "A">> THEN T_RSA_OAEP
                ELSE native

C7_Witness ==
    /\ Constructed
    /\ Last.path = "generation"
    /\ Len(Last.calls) = 2
    /\ CONTENT_KEY_WRAPPING_ALGORITHM \notin DOMAIN Last.supplied
    /\ Last.wrapping_key = Some(K_OTHER)
    /\ Last.calls[2].algorithm = <<"X", "1">>

\* C8: on the generation path generate is asked for the family before the
\* first "/" of the spec (AES/256 when the description has none) and, when
\* there is a second segment, for that bit length integer-divided by 8 bytes
\* (AES/256: AES, 32); without a second segment it is asked for no length and
\* construction succeeds.
C8_ContentKeyParameters ==
    (Constructed /\ Last.path = "generation" /\ Last.wrapping_key # None) =>
        LET c == Last
            spec == SuppliedSpec(c)
        IN  /\ c.calls # <<>> =>
                /\ c.calls[1].op = "generate"
                /\ c.calls[1].algorithm = FamilyOf(spec)
                /\ HasSlash(spec) =>
                    c.calls[1].key_length
                        = Some(Int_(SecondSegment(spec)) \div 8)
                /\ ~HasSlash(spec) => c.calls[1].key_length = None
            /\ ~HasSlash(spec) => (c.calls # <<>> /\ c.outcome = "ok")
            /\ (HasSlash(spec) /\ IntLiteral(SecondSegment(spec)))
                => (c.calls # <<>> /\ c.outcome = "ok")
            /\ spec = <<"A", "E", "S", "/", "2", "5", "6">> =>
                /\ c.calls[1].algorithm = <<"A", "E", "S">>
                /\ c.calls[1].key_length = Some(32)

C8_Witness ==
    /\ Constructed
    /\ Last.path = "generation"
    /\ Last.outcome = "ok"
    /\ SuppliedSpec(Last) = <<"A", "E", "S", "/", "2", "0">>
    /\ Last.calls[1].key_length = Some(2)

C8_WitnessNoLength ==
    /\ Constructed
    /\ Last.outcome = "ok"
    /\ SuppliedSpec(Last) = <<"A", "E", "S">>
    /\ Last.calls[1].key_length = None

\* C9: after any accessor calls, encryption_key and decryption_key return the
\* content key resolved at construction, signing_key and verification_key the
\* signing key supplied, and the instance's content key, signing key and
\* description are what they were when the constructor returned.
C9_RoleAliasing ==
    m1 # None =>
        /\ ret.accessor \in {"encryption_key", "decryption_key"}
            => ret.value = Last.content_key[1]
        /\ ret.accessor \in {"signing_key", "verification_key"}
            => ret.value = Last.signing_key
        /\ ret.accessor = "material_description"
            => heap[ret.value] = Last.material_description[1]
        /\ encryption_key(m1[1]) = decryption_key(m1[1])
        /\ signing_key(m1[1]) = verification_key(m1[1])
        /\ m1[1]._content_key = Last.content_key[1]
        /\ m1[1]._signing_key = Last.signing_key
        /\ heap[m1[1]._material_description] = Last.material_description[1]

C9_Witness ==
    /\ m1 # None
    /\ ret.accessor = "verification_key"
    /\ ret.value = Last.signing_key

\* What a recovery with an unwrapping key passes to unwrap, and what becomes
\* of the key unwrap returns.
UnwrapsAsClaimed(c) ==
    /\ Len(c.calls) = 1
    /\ c.calls[1].op = "unwrap"
    /\ c.calls[1].key = c.unwrapping_key[1]
    /\ c.calls[1].algorithm =
        IF CONTENT_KEY_WRAPPING_ALGORITHM \in DOMAIN c.supplied
        THEN c.supplied[CONTENT_KEY_WRAPPING_ALGORITHM]
        ELSE c.unwrapping_key[1].algorithm
    /\ b64decode(c.supplied[WRAPPED_DATA_KEY])
        = [ok |-> TRUE, bytes |-> c.calls[1].wrapped_key]
    /\ c.calls[1].wrapped_key_algorithm = FamilyOf(SuppliedSpec(c))
    /\ c.calls[1].wrapped_key_type = "SYMMETRIC"
    /\ c.calls[1].additional_associated_data = None
    /\ c.calls[1].returned # None =>
        /\ c.outcome = "ok"
        /\ m1 # None
        /\ m1[1]._content_key = c.calls[1].returned[1]
        /\ heap[material_description(m1[1])] = c.supplied

\* C10 as stated: on the recovery path with an unwrapping key, unwrap is
\* invoked exactly once, with these arguments.
C10_AsStated ==
    (Constructed /\ Last.path = "recovery" /\ Last.unwrapping_key # None)
        => UnwrapsAsClaimed(Last)

\* C10: on the recovery path with an unwrapping key, when the
\* wrapped-content-key entry decodes as base64, unwrap is invoked exactly once
\* with the transform of the description or else the unwrapping key's own
\* identifier untranslated, the decoded bytes, the first segment of the spec,
\* SYMMETRIC and no associated data; the key it returns is the content key and
\* the description stays as supplied.  When the entry does not decode,
\* construction fails with the decoder's error and unwrap is not invoked.
C10_RecoveryUnwrap ==
    (Constructed /\ Last.path = "recovery" /\ Last.unwrapping_key # None) =>
        IF b64decode(Last.supplied[WRAPPED_DATA_KEY]).ok
        THEN UnwrapsAsClaimed(Last)
        ELSE /\ Last.calls = <<>>
             /\ Last.outcome = "binascii.Error"
             /\ m1 = None

C10_Witness ==
    /\ Constructed
    /\ Last.path = "recovery"
    /\ Last.unwrapping_key = Some(K_AES)
    /\ CONTENT_KEY_WRAPPING_ALGORITHM \notin DOMAIN Last.supplied
    /\ Len(Last.calls) = 1
    /\ Last.calls[1].algorithm = <<"A", "E", "S">>
    /\ Last.outcome = "ok"
    /\ m1[1]._content_key.key = StoredKey

====
